---- MODULE Spec2Model ----
(***************************************************************************)
(* QemuEvent (util/event.c): a tri-state, resettable event with two        *)
(* backends selected by HAVE_FUTEX.  Every atomic access of ev->value is   *)
(* one step of the calling thread; memory is sequentially consistent (the  *)
(* barriers smp_mb / smp_mb__after_rmw of the code are then no-ops).       *)
(***************************************************************************)
EXTENDS Integers, FiniteSets, TLC

\* ---------------------------------------------------------------- bounds
NThreads == 3
MaxCalls == 4

Threads == 1..NThreads

\* ------------------------------------------------------- program constants
EV_SET == 0
EV_FREE == 1
EV_BUSY == -1

States == {EV_SET, EV_FREE, EV_BUSY}

VARIABLES
    have_futex,   \* the HAVE_FUTEX build choice (fixed for a behaviour)
    value,        \* ev->value
    initialized,  \* ev->initialized
    lock,         \* ev->lock: 0 when free, else the owning thread (fallback)
    pc,           \* position of each thread inside its current call
    fatal,        \* an assert() failed: the process is gone
    calls,        \* number of calls started so far (bounded by MaxCalls)
    old,          \* set(): the local `old`, the value its store replaced
    wakes,        \* history: wake operations issued (wake-all or broadcast)
    ncas,         \* history: successful FREE->BUSY compare-and-swaps
    blocked,      \* history: this wait() call reached the blocking call
    preset,       \* history: value was SET when this wait() began, no reset since
    sig,          \* history: "set" a set() executed during this wait() call,
                  \*          "stale" and a reset() executed after it, else "none"
    kept          \* history: this set() call has stored SET and no reset()
                  \*          has executed since

vars == <<have_futex, value, initialized, lock, pc, fatal, calls, old, wakes,
          ncas, blocked, preset, sig, kept>>

hist == <<old, wakes, ncas, blocked, preset, sig, kept>>

\* ------------------------------------------------------------ pure helpers

\* Variant: bitwise AND, what qatomic_and would compute.
RECURSIVE BitAnd(_, _)
BitAnd(a, b) ==
    IF a = 0 \/ b = 0 THEN 0
    ELSE IF a = -1 THEN b
    ELSE IF b = -1 THEN a
    ELSE 2 * BitAnd(a \div 2, b \div 2)
         + (IF (a % 2) = 1 /\ (b % 2) = 1 THEN 1 ELSE 0)

\* Bitwise OR of two's-complement integers of any width (the | of C on int).
RECURSIVE BitOr(_, _)
BitOr(a, b) ==
    IF a = 0 THEN b
    ELSE IF b = 0 THEN a
    ELSE IF a = -1 \/ b = -1 THEN -1
    ELSE 2 * BitOr(a \div 2, b \div 2)
         + (IF (a % 2) = 1 \/ (b % 2) = 1 THEN 1 ELSE 0)

WaitPcs == {"wait_load", "wait_cas", "wait_futex", "futex_sleep",
            "wait_lock", "wait_check", "cond_sleep", "cond_relock",
            "wait_unlock"}

InWait(t) == pc[t] \in WaitPcs

\* qemu_futex_wake_all(ev): every thread asleep on the word resumes.
qemu_futex_wake_all(p) ==
    [u \in Threads |-> IF p[u] = "futex_sleep" THEN "wait_load" ELSE p[u]]

\* qemu_futex_wait(ev, val) sleeps only if the word still equals val.
qemu_futex_wait_sleeps(v, val) == v = val

\* pthread_cond_broadcast: every thread waiting on the condition variable
\* resumes and has to take the mutex again before pthread_cond_wait returns.
pthread_cond_broadcast(p) ==
    [u \in Threads |-> IF p[u] = "cond_sleep" THEN "cond_relock" ELSE p[u]]

\* History bookkeeping: a set() has executed / a reset() has executed.
SigOnSet == [u \in Threads |-> IF InWait(u) THEN "set" ELSE sig[u]]
SigOnReset == [u \in Threads |-> IF sig[u] = "set" THEN "stale" ELSE sig[u]]
PresetOnReset == [u \in Threads |-> FALSE]
KeptOnReset == [u \in Threads |-> FALSE]

\* ------------------------------------------------------------------- Init

Init ==
    /\ have_futex \in BOOLEAN
    /\ value \in {EV_SET, EV_FREE}      \* qemu_event_init(ev, init)
    /\ initialized = TRUE
    /\ lock = 0
    /\ pc = [t \in Threads |-> "idle"]
    /\ fatal = FALSE
    /\ calls = 0
    /\ old = [t \in Threads |-> EV_FREE]
    /\ wakes = 0
    /\ ncas = 0
    /\ blocked = [t \in Threads |-> FALSE]
    /\ preset = [t \in Threads |-> FALSE]
    /\ sig = [t \in Threads |-> "none"]
    /\ kept = [t \in Threads |-> FALSE]

\* Variant: the assertion is compiled out, the call goes on whatever the flag.
Enter_unchecked(t, first) ==
    /\ ~fatal
    /\ pc[t] = "idle"
    /\ calls < MaxCalls
    /\ calls' = calls + 1
    /\ pc' = [pc EXCEPT ![t] = first]
    /\ UNCHANGED <<have_futex, value, initialized, lock, fatal, old, wakes, ncas,
                   blocked, sig, kept>>

\* A call starts with assert(ev->initialized); `first` is where it goes on.
Enter(t, first) ==
    /\ ~fatal
    /\ pc[t] = "idle"
    /\ calls < MaxCalls
    /\ calls' = calls + 1
    /\ IF initialized
       THEN pc' = [pc EXCEPT ![t] = first] /\ fatal' = fatal
       ELSE pc' = pc /\ fatal' = TRUE
    /\ UNCHANGED <<have_futex, value, initialized, lock, old, wakes, ncas,
                   blocked, sig, kept>>

\* pthread_mutex_lock returns: the mutex is free.  A destroyed mutex excludes
\* nobody (locking it is undefined; the call may return at once).
MutexFree == lock = 0 \/ ~initialized

At(t, where) == ~fatal /\ pc[t] = where

Goto(t, where) == pc' = [pc EXCEPT ![t] = where]

\* ------------------------------------------------------- qemu_event_set

qemu_event_set_assert(t) ==
    /\ Enter(t, IF have_futex THEN "set_read" ELSE "set_lock")
    /\ preset' = preset

\* if (qatomic_read(&ev->value) != EV_SET)
qemu_event_set_read(t) ==
    /\ At(t, "set_read")
    /\ IF value # EV_SET
       THEN Goto(t, "set_xchg") /\ sig' = sig
       ELSE Goto(t, "idle") /\ sig' = SigOnSet
    /\ UNCHANGED <<have_futex, value, initialized, lock, fatal, calls, old, wakes,
                   ncas, blocked, preset, kept>>

\* Variant: the wake is asked for whatever `old` is.
qemu_event_set_xchg_wakealways(t) ==
    /\ At(t, "set_xchg")
    /\ value' = EV_SET
    /\ old' = [old EXCEPT ![t] = value]
    /\ Goto(t, "set_wake")
    /\ sig' = SigOnSet
    /\ kept' = [kept EXCEPT ![t] = TRUE]
    /\ UNCHANGED <<have_futex, initialized, lock, fatal, calls, wakes, ncas,
                   blocked, preset>>

\* Variant: the exchange is done but the test of `old` never asks for a wake.
qemu_event_set_xchg_nowake(t) ==
    /\ At(t, "set_xchg")
    /\ value' = EV_SET
    /\ Goto(t, "idle")
    /\ sig' = SigOnSet
    /\ UNCHANGED <<have_futex, initialized, lock, fatal, calls, old, wakes, ncas,
                   blocked, preset, kept>>

\* Variant: the wake is asked for unless `old` is EV_SET.
qemu_event_set_xchg_wakeunlessset(t) ==
    /\ At(t, "set_xchg")
    /\ value' = EV_SET
    /\ IF value # EV_SET
       THEN /\ Goto(t, "set_wake")
            /\ old' = [old EXCEPT ![t] = value]
            /\ kept' = [kept EXCEPT ![t] = TRUE]
       ELSE Goto(t, "idle") /\ UNCHANGED <<old, kept>>
    /\ sig' = SigOnSet
    /\ UNCHANGED <<have_futex, initialized, lock, fatal, calls, wakes, ncas,
                   blocked, preset>>

\* int old = qatomic_xchg(&ev->value, EV_SET); if (old == EV_BUSY) ...
\* (`old` is kept only while the call goes on: it is dead once set() returns)
qemu_event_set_xchg(t) ==
    /\ At(t, "set_xchg")
    /\ value' = EV_SET
    /\ IF value = EV_BUSY
       THEN /\ Goto(t, "set_wake")
            /\ old' = [old EXCEPT ![t] = value]
            /\ kept' = [kept EXCEPT ![t] = TRUE]
       ELSE Goto(t, "idle") /\ UNCHANGED <<old, kept>>
    /\ sig' = SigOnSet
    /\ UNCHANGED <<have_futex, initialized, lock, fatal, calls, wakes, ncas,
                   blocked, preset>>

\* Variant: one sleeper is woken instead of all of them.
qemu_event_set_wake_one(t) ==
    /\ At(t, "set_wake")
    /\ IF \E u \in Threads : pc[u] = "futex_sleep"
       THEN \E u \in Threads :
               /\ pc[u] = "futex_sleep"
               /\ pc' = [pc EXCEPT ![u] = "wait_load", ![t] = "idle"]
       ELSE Goto(t, "idle")
    /\ old' = [old EXCEPT ![t] = EV_FREE]
    /\ wakes' = wakes + 1
    /\ kept' = [kept EXCEPT ![t] = FALSE]
    /\ UNCHANGED <<have_futex, value, initialized, lock, fatal, calls, ncas,
                   blocked, preset, sig>>

\* Variant: the wake reaches nobody.
qemu_event_set_wake_none(t) ==
    /\ At(t, "set_wake")
    /\ Goto(t, "idle")
    /\ old' = [old EXCEPT ![t] = EV_FREE]
    /\ kept' = [kept EXCEPT ![t] = FALSE]
    /\ wakes' = wakes + 1
    /\ UNCHANGED <<have_futex, value, initialized, lock, fatal, calls, ncas,
                   blocked, preset, sig>>

\* qemu_futex_wake_all(ev);
qemu_event_set_wake(t) ==
    /\ At(t, "set_wake")
    /\ pc' = [qemu_futex_wake_all(pc) EXCEPT ![t] = "idle"]
    /\ old' = [old EXCEPT ![t] = EV_FREE]
    /\ wakes' = wakes + 1
    /\ kept' = [kept EXCEPT ![t] = FALSE]
    /\ UNCHANGED <<have_futex, value, initialized, lock, fatal, calls, ncas,
                   blocked, preset, sig>>

\* pthread_mutex_lock(&ev->lock);
qemu_event_set_lock(t) ==
    /\ At(t, "set_lock")
    /\ MutexFree
    /\ lock' = t
    /\ Goto(t, "set_store")
    /\ UNCHANGED <<have_futex, value, initialized, fatal, calls, hist>>

\* qatomic_set(&ev->value, EV_SET);   (`old`: history of the value replaced)
qemu_event_set_store(t) ==
    /\ At(t, "set_store")
    /\ value' = EV_SET
    /\ old' = [old EXCEPT ![t] = value]
    /\ Goto(t, "set_bcast")
    /\ sig' = SigOnSet
    /\ kept' = [kept EXCEPT ![t] = TRUE]
    /\ UNCHANGED <<have_futex, initialized, lock, fatal, calls, wakes, ncas,
                   blocked, preset>>

\* pthread_cond_broadcast(&ev->cond);
qemu_event_set_bcast(t) ==
    /\ At(t, "set_bcast")
    /\ pc' = [pthread_cond_broadcast(pc) EXCEPT ![t] = "set_unlock"]
    /\ wakes' = wakes + 1
    /\ UNCHANGED <<have_futex, value, initialized, lock, fatal, calls, old, ncas,
                   blocked, preset, sig, kept>>

\* pthread_mutex_unlock(&ev->lock);
qemu_event_set_unlock(t) ==
    /\ At(t, "set_unlock")
    /\ lock' = 0
    /\ Goto(t, "idle")
    /\ old' = [old EXCEPT ![t] = EV_FREE]
    /\ kept' = [kept EXCEPT ![t] = FALSE]
    /\ UNCHANGED <<have_futex, value, initialized, fatal, calls, wakes, ncas,
                   blocked, preset, sig>>

\* ----------------------------------------------------- qemu_event_reset

qemu_event_reset_assert(t) ==
    /\ Enter(t, "reset_or")
    /\ preset' = preset

\* Variant: a plain store of EV_FREE instead of the OR.
qemu_event_reset_store(t) ==
    /\ At(t, "reset_or")
    /\ value' = EV_FREE
    /\ Goto(t, "idle")
    /\ sig' = SigOnReset
    /\ preset' = PresetOnReset
    /\ kept' = KeptOnReset
    /\ UNCHANGED <<have_futex, initialized, lock, fatal, calls, old, wakes, ncas,
                   blocked>>

\* Variant: the OR is done under the mutex of the fallback backend.
qemu_event_reset_or_locked(t) ==
    /\ At(t, "reset_or")
    /\ have_futex \/ MutexFree
    /\ value' = BitOr(value, EV_FREE)
    /\ Goto(t, "idle")
    /\ sig' = SigOnReset
    /\ preset' = PresetOnReset
    /\ kept' = KeptOnReset
    /\ UNCHANGED <<have_futex, initialized, lock, fatal, calls, old, wakes, ncas,
                   blocked>>

\* qatomic_or(&ev->value, EV_FREE);
qemu_event_reset_or(t) ==
    /\ At(t, "reset_or")
    /\ value' = BitOr(value, EV_FREE)
    /\ Goto(t, "idle")
    /\ sig' = SigOnReset
    /\ preset' = PresetOnReset
    /\ kept' = KeptOnReset
    /\ UNCHANGED <<have_futex, initialized, lock, fatal, calls, old, wakes, ncas,
                   blocked>>

\* ------------------------------------------------------ qemu_event_wait

qemu_event_wait_assert(t) ==
    /\ Enter(t, IF have_futex THEN "wait_load" ELSE "wait_lock")
    /\ preset' = [preset EXCEPT ![t] = initialized /\ value = EV_SET]

\* The wait() call of t returns: `break`, or the end of the function.  The
\* history of the call ends with it.
Return(t) ==
    /\ Goto(t, "idle")
    /\ blocked' = [blocked EXCEPT ![t] = FALSE]
    /\ preset' = [preset EXCEPT ![t] = FALSE]
    /\ sig' = [sig EXCEPT ![t] = "none"]

\* unsigned value = qatomic_load_acquire(&ev->value); and the two tests on it
qemu_event_wait_load(t) ==
    /\ At(t, "wait_load")
    /\ IF value = EV_SET
       THEN Return(t)
       ELSE /\ Goto(t, IF value = EV_FREE THEN "wait_cas" ELSE "wait_futex")
            /\ UNCHANGED <<blocked, preset, sig>>
    /\ UNCHANGED <<have_futex, value, initialized, lock, fatal, calls, old, wakes,
                   ncas, kept>>

\* Variant: an exchange instead of the compare-and-swap, BUSY is written
\* whatever the word held.
qemu_event_wait_cas_xchg(t) ==
    /\ At(t, "wait_cas")
    /\ value' = EV_BUSY
    /\ ncas' = IF value = EV_FREE THEN ncas + 1 ELSE ncas
    /\ IF value = EV_SET
       THEN Return(t)
       ELSE Goto(t, "wait_futex") /\ UNCHANGED <<blocked, preset, sig>>
    /\ UNCHANGED <<have_futex, initialized, lock, fatal, calls, old, wakes, kept>>

\* if (qatomic_cmpxchg(&ev->value, EV_FREE, EV_BUSY) == EV_SET) break;
qemu_event_wait_cas(t) ==
    /\ At(t, "wait_cas")
    /\ value' = IF value = EV_FREE THEN EV_BUSY ELSE value
    /\ ncas' = IF value = EV_FREE THEN ncas + 1 ELSE ncas
    /\ IF value = EV_SET
       THEN Return(t)
       ELSE Goto(t, "wait_futex") /\ UNCHANGED <<blocked, preset, sig>>
    /\ UNCHANGED <<have_futex, initialized, lock, fatal, calls, old, wakes, kept>>

\* Variant: no loop, wait() returns when the wait-on-address call refuses.
qemu_event_wait_futex_noloop(t) ==
    /\ At(t, "wait_futex")
    /\ IF qemu_futex_wait_sleeps(value, EV_BUSY)
       THEN /\ Goto(t, "futex_sleep")
            /\ blocked' = [blocked EXCEPT ![t] = TRUE]
            /\ UNCHANGED <<preset, sig>>
       ELSE Return(t)
    /\ UNCHANGED <<have_futex, value, initialized, lock, fatal, calls, old, wakes,
                   ncas, kept>>

\* Variant: the sleep is entered whatever the word holds.
qemu_event_wait_futex_nocheck(t) ==
    /\ At(t, "wait_futex")
    /\ Goto(t, "futex_sleep")
    /\ blocked' = [blocked EXCEPT ![t] = TRUE]
    /\ UNCHANGED <<have_futex, value, initialized, lock, fatal, calls, old, wakes,
                   ncas, preset, sig, kept>>

\* qemu_futex_wait(ev, EV_BUSY);
qemu_event_wait_futex(t) ==
    /\ At(t, "wait_futex")
    /\ Goto(t, IF qemu_futex_wait_sleeps(value, EV_BUSY)
               THEN "futex_sleep" ELSE "wait_load")
    /\ blocked' = [blocked EXCEPT ![t] = TRUE]
    /\ UNCHANGED <<have_futex, value, initialized, lock, fatal, calls, old, wakes,
                   ncas, preset, sig, kept>>

\* qemu_futex_wait returns although nobody woke the word (EINTR, early return).
futex_spurious(t) ==
    /\ At(t, "futex_sleep")
    /\ Goto(t, "wait_load")
    /\ UNCHANGED <<have_futex, value, initialized, lock, fatal, calls, hist>>

\* pthread_mutex_lock(&ev->lock);
qemu_event_wait_lock(t) ==
    /\ At(t, "wait_lock")
    /\ MutexFree
    /\ lock' = t
    /\ Goto(t, "wait_check")
    /\ UNCHANGED <<have_futex, value, initialized, fatal, calls, hist>>

\* Variant: the test is inverted, the condition wait is entered on SET.
qemu_event_wait_check_inverted(t) ==
    /\ At(t, "wait_check")
    /\ IF value = EV_SET
       THEN /\ Goto(t, "cond_sleep")
            /\ lock' = 0
            /\ blocked' = [blocked EXCEPT ![t] = TRUE]
       ELSE /\ Goto(t, "wait_unlock")
            /\ UNCHANGED <<lock, blocked>>
    /\ UNCHANGED <<have_futex, value, initialized, fatal, calls, old, wakes, ncas,
                   preset, sig, kept>>

\* Variant: the fallback registers the waiter, FREE becomes BUSY before the
\* condition wait.
qemu_event_wait_check_busy(t) ==
    /\ At(t, "wait_check")
    /\ IF value # EV_SET
       THEN /\ Goto(t, "cond_sleep")
            /\ lock' = 0
            /\ value' = EV_BUSY
            /\ blocked' = [blocked EXCEPT ![t] = TRUE]
       ELSE /\ Goto(t, "wait_unlock")
            /\ UNCHANGED <<value, lock, blocked>>
    /\ UNCHANGED <<have_futex, initialized, fatal, calls, old, wakes, ncas,
                   preset, sig, kept>>

\* if (qatomic_read(&ev->value) != EV_SET) pthread_cond_wait(&ev->cond, &ev->lock);
\* pthread_cond_wait releases the mutex and sleeps in one atomic step.
qemu_event_wait_check(t) ==
    /\ At(t, "wait_check")
    /\ IF value # EV_SET
       THEN /\ Goto(t, "cond_sleep")
            /\ lock' = 0
            /\ blocked' = [blocked EXCEPT ![t] = TRUE]
       ELSE /\ Goto(t, "wait_unlock")
            /\ UNCHANGED <<lock, blocked>>
    /\ UNCHANGED <<have_futex, value, initialized, fatal, calls, old, wakes, ncas,
                   preset, sig, kept>>

\* pthread_cond_wait wakes with no broadcast (POSIX allows spurious wakeups).
cond_spurious(t) ==
    /\ At(t, "cond_sleep")
    /\ Goto(t, "cond_relock")
    /\ UNCHANGED <<have_futex, value, initialized, lock, fatal, calls, hist>>

\* pthread_cond_wait takes the mutex again and returns.
qemu_event_wait_relock(t) ==
    /\ At(t, "cond_relock")
    /\ MutexFree
    /\ lock' = t
    /\ Goto(t, "wait_unlock")
    /\ UNCHANGED <<have_futex, value, initialized, fatal, calls, hist>>

\* pthread_mutex_unlock(&ev->lock);
qemu_event_wait_unlock(t) ==
    /\ At(t, "wait_unlock")
    /\ lock' = 0
    /\ Return(t)
    /\ UNCHANGED <<have_futex, value, initialized, fatal, calls, old, wakes, ncas,
                   kept>>

\* ------------------------------------- qemu_event_init, qemu_event_destroy

\* qemu_event_init(ev, init): the fallback's mutex and condition variable
\* are made afresh, the value and the flag are written.  It asserts nothing.
qemu_event_init(t, init) ==
    /\ At(t, "idle")
    /\ calls < MaxCalls
    /\ calls' = calls + 1
    /\ lock' = IF have_futex THEN lock ELSE 0
    /\ value' = IF init THEN EV_SET ELSE EV_FREE
    /\ initialized' = TRUE
    /\ preset' = [u \in Threads |-> FALSE]
    /\ kept' = KeptOnReset
    /\ UNCHANGED <<have_futex, pc, fatal, old, wakes, ncas, blocked, sig>>

\* Variant: the assertion is inverted, assert(!ev->initialized).
qemu_event_destroy_assert_inverted(t) ==
    /\ ~fatal
    /\ pc[t] = "idle"
    /\ calls < MaxCalls
    /\ calls' = calls + 1
    /\ IF ~initialized
       THEN pc' = [pc EXCEPT ![t] = "destroy_clear"] /\ fatal' = fatal
       ELSE pc' = pc /\ fatal' = TRUE
    /\ UNCHANGED <<have_futex, value, initialized, lock, hist>>

\* assert(ev->initialized);
qemu_event_destroy_assert(t) ==
    /\ Enter(t, "destroy_clear")
    /\ preset' = preset

\* ev->initialized = false; and, in the fallback, pthread_mutex_destroy and
\* pthread_cond_destroy, whose results the code does not look at.
qemu_event_destroy_clear(t) ==
    /\ At(t, "destroy_clear")
    /\ initialized' = FALSE
    /\ Goto(t, "idle")
    /\ UNCHANGED <<have_futex, value, lock, fatal, calls, hist>>

\* ---------------------------------------------------------- specification

\* A step taken by thread t inside a call it has started.
Step(t) ==
    \/ qemu_event_set_read(t)
    \/ qemu_event_set_xchg(t)
    \/ qemu_event_set_wake(t)
    \/ qemu_event_set_lock(t)
    \/ qemu_event_set_store(t)
    \/ qemu_event_set_bcast(t)
    \/ qemu_event_set_unlock(t)
    \/ qemu_event_reset_or(t)
    \/ qemu_event_wait_load(t)
    \/ qemu_event_wait_cas(t)
    \/ qemu_event_wait_futex(t)
    \/ qemu_event_wait_lock(t)
    \/ qemu_event_wait_check(t)
    \/ qemu_event_wait_relock(t)
    \/ qemu_event_wait_unlock(t)

\* A thread calls set(), reset() or wait().
Call(t) ==
    \/ qemu_event_set_assert(t)
    \/ qemu_event_reset_assert(t)
    \/ qemu_event_wait_assert(t)

\* The kernel or the C library returns from a sleep nobody ended.
Spurious(t) ==
    \/ futex_spurious(t)
    \/ cond_spurious(t)

Next == \E t \in Threads : Call(t) \/ Step(t) \/ Spurious(t)

Spec == Init /\ [][Next]_vars

\* Every thread that is inside a call keeps being scheduled.  Nothing obliges
\* a thread to start another call, and nothing obliges a spurious return.
FairSpec == Spec /\ \A t \in Threads : WF_vars(Step(t))

\* The life cycle: the storage of the event starts zeroed, and threads also
\* call qemu_event_init and qemu_event_destroy.
LifeInit ==
    /\ have_futex \in BOOLEAN
    /\ value = 0
    /\ initialized = FALSE
    /\ lock = 0
    /\ pc = [t \in Threads |-> "idle"]
    /\ fatal = FALSE
    /\ calls = 0
    /\ old = [t \in Threads |-> EV_FREE]
    /\ wakes = 0
    /\ ncas = 0
    /\ blocked = [t \in Threads |-> FALSE]
    /\ preset = [t \in Threads |-> FALSE]
    /\ sig = [t \in Threads |-> "none"]
    /\ kept = [t \in Threads |-> FALSE]

Life(t) ==
    \/ \E init \in BOOLEAN : qemu_event_init(t, init)
    \/ qemu_event_destroy_assert(t)
    \/ qemu_event_destroy_clear(t)

LifeNext == Next \/ \E t \in Threads : Life(t)

LifeSpec == LifeInit /\ [][LifeNext]_vars

TypeOK ==
    /\ have_futex \in BOOLEAN
    /\ value \in States
    /\ initialized \in BOOLEAN
    /\ lock \in 0..NThreads
    /\ pc \in [Threads -> WaitPcs \cup {"idle", "set_read", "set_xchg",
                 "set_wake", "set_lock", "set_store", "set_bcast",
                 "set_unlock", "reset_or", "destroy_clear"}]
    /\ fatal \in BOOLEAN
    /\ calls \in 0..MaxCalls
    /\ old \in [Threads -> States]
    /\ wakes \in 0..MaxCalls
    /\ ncas \in 0..MaxCalls
    /\ blocked \in [Threads -> BOOLEAN]
    /\ preset \in [Threads -> BOOLEAN]
    /\ sig \in [Threads -> {"none", "set", "stale"}]
    /\ kept \in [Threads -> BOOLEAN]

\* ------------------------------------------------------------------ claims

Asleep(t) == pc[t] \in {"futex_sleep", "cond_sleep"}

\* C1 as stated: whenever a set() executes while the wait() call of t is
\* under way, that call eventually returns, whatever reset() calls follow.
C1_NoMissedWakeup ==
    \A t \in Threads : (sig[t] # "none") ~> ~InWait(t)

\* C1 (amended): whenever a set() executes while the wait() call of t is under
\* way, that call eventually returns unless a reset() executes after the set().
C1_NoMissedWakeupUnlessReset ==
    \A t \in Threads : (sig[t] = "set") ~> (~InWait(t) \/ sig[t] = "stale")

\* A waiter is asleep at the moment a set() has executed (its wake not yet issued).
C1_Witness ==
    \E t \in Threads : Asleep(t) /\ sig[t] = "set"

\* C2: if the value ends up SET for good (a set() executed and no reset()
\* executes afterwards) then every wait() call returns: no thread stays in wait().
C2_FanOutWake ==
    <>[](value = EV_SET) => <>[](\A t \in Threads : ~InWait(t))

\* Two waiters are asleep together while a set() is about to issue its wake.
C2_Witness ==
    \E a, b, s \in Threads :
        /\ a # b
        /\ Asleep(a) /\ Asleep(b)
        /\ pc[s] \in {"set_wake", "set_bcast"}

LegalTransitions ==
    {<<EV_FREE, EV_SET>>, <<EV_BUSY, EV_SET>>, <<EV_SET, EV_FREE>>,
     <<EV_FREE, EV_BUSY>>}

\* C3: every change of the state word is FREE->SET, BUSY->SET, SET->FREE or
\* FREE->BUSY; in particular never BUSY->FREE and never SET->BUSY in one step.
C3_LegalTransitions ==
    [][value' # value => <<value, value'>> \in LegalTransitions]_vars

\* The word is BUSY for the second time, after a wake: all of FREE->BUSY,
\* BUSY->SET, SET->FREE and FREE->BUSY again have happened.
C3_Witness ==
    have_futex /\ value = EV_BUSY /\ wakes >= 1 /\ ncas >= 2

\* The step in which thread t leaves position `from`.
Leaves(t, from) == pc[t] = from /\ pc'[t] # from

\* C4: the OR of reset() maps SET to FREE and leaves FREE and BUSY alone, so
\* the result stays a state, a second OR changes nothing, and BUSY->FREE does
\* not happen.
C4_ResetIdempotent ==
    [][\A t \in Threads : Leaves(t, "reset_or") =>
          /\ value' = (IF value = EV_SET THEN EV_FREE ELSE value)
          /\ value' \in States
          /\ BitOr(value', EV_FREE) = value'
          /\ ~(value = EV_BUSY /\ value' = EV_FREE)]_vars

\* A reset() has turned SET into FREE behind a waiter's back and another
\* reset() is under way on the FREE word.
C4_Witness ==
    \E t, r \in Threads :
        sig[t] = "stale" /\ value = EV_FREE /\ pc[r] = "reset_or"

C6_FreeMeansNoSleeper ==
    have_futex /\ value = EV_FREE
        => \A t \in Threads : pc[t] # "futex_sleep"

\* C6 (amended): in the fast backend nobody sleeps in the wait-on-address call
\* while the word is FREE, unless a set() that exchanged BUSY out has not yet
\* issued its wake-all.
C6_FreeMeansNoSleeperOrWakePending ==
    have_futex /\ value = EV_FREE /\ (\A s \in Threads : pc[s] # "set_wake")
        => \A t \in Threads : pc[t] # "futex_sleep"

\* The word is FREE again after a wake-all released a sleeper.
C6_Witness ==
    /\ have_futex /\ value = EV_FREE /\ wakes >= 1
    /\ \A s \in Threads : pc[s] # "set_wake"
    /\ \E t \in Threads : blocked[t] /\ pc[t] = "wait_cas"

\* C7: wait() does not consume the event.  Only a reset() step moves the word
\* out of SET; a wait() call that began with the word SET, with no reset()
\* since, has not reached its blocking call and the word is still SET, and
\* when it returns it leaves the word SET.
C7_Latch ==
    /\ [](\A t \in Threads : preset[t] =>
             value = EV_SET /\ ~blocked[t] /\ ~Asleep(t))
    /\ [][/\ (value = EV_SET /\ value' # EV_SET
               => \E r \in Threads : Leaves(r, "reset_or"))
          /\ \A t \in Threads :
               preset[t] /\ InWait(t) /\ pc'[t] = "idle"
                 => value' = EV_SET /\ ~blocked[t]]_vars

\* A third wait() call that began with the word SET is past its test of the
\* value and about to return; the two calls before it have returned.
C7_Witness ==
    \E a \in Threads :
        /\ calls = 3 /\ wakes = 0 /\ value = EV_SET
        /\ preset[a] /\ pc[a] = "wait_unlock"
        /\ \A b \in Threads \ {a} : pc[b] = "idle"

\* C8: in the fast backend, with early and spurious returns of the
\* wait-on-address call allowed at any time, a wait() call returns only in a
\* step of its load or of its compare-and-swap that reads SET; and the word
\* becomes SET only in a step of set().
C8_ReturnsOnlyOnSet ==
    [][/\ \A t \in Threads :
             have_futex /\ InWait(t) /\ pc'[t] = "idle"
               => value = EV_SET /\ pc[t] \in {"wait_load", "wait_cas"}
       /\ (have_futex /\ value # EV_SET /\ value' = EV_SET
             => \E s \in Threads : Leaves(s, "set_xchg"))]_vars

\* A wait() call is back at its load after calling wait-on-address although
\* no wake-all was issued or is pending (the call refused to sleep or returned
\* spuriously), and the word is not SET: the call goes round the loop again.
C8_Witness ==
    \E t \in Threads :
        /\ have_futex /\ blocked[t] /\ pc[t] = "wait_load" /\ wakes = 0
        /\ value # EV_SET /\ \A s \in Threads : pc[s] # "set_wake"

\* C9: in the fallback backend a wait() call whose condition wait has
\* returned goes on to return only if a set() executed during the call.
C9_SpuriousCondWaitRechecked ==
    \A t \in Threads :
        ~have_futex /\ blocked[t] /\ pc[t] = "wait_unlock" => sig[t] # "none"

BlockedInWait(t) == Asleep(t)

\* C10 as stated: a destroy() call does not get past its assertion while a
\* thread is blocked inside wait().
C10_DestroyDetectsWaiter ==
    [][\A d \in Threads :
          pc[d] = "idle" /\ pc'[d] = "destroy_clear"
            => ~\E w \in Threads : BlockedInWait(w)]_vars

\* C10 (amended): destroy() asserts only that the event is initialized.  While
\* a thread is blocked inside wait() on an initialized event no call, destroy()
\* included, reaches the fatal state; destroy() clears the flag and returns,
\* and the waiter is left blocked.
C10_DestroyIgnoresWaiter ==
    [][\A w \in Threads : BlockedInWait(w) =>
          /\ (initialized => ~fatal')
          /\ \A d \in Threads : Leaves(d, "destroy_clear") =>
                /\ ~fatal' /\ ~initialized'
                /\ pc'[d] = "idle" /\ pc'[w] = pc[w]]_vars

\* A destroy() has cleared the flag and a waiter is still blocked.
C10_Witness ==
    ~fatal /\ ~initialized /\ \E w \in Threads : BlockedInWait(w)

\* C11: the life cycle.  A call that starts while the flag is false is either
\* qemu_event_init, which sets the flag and writes SET or FREE (never BUSY),
\* or it ends in the fatal assertion with the state word, the flag, the mutex,
\* the wake count and every thread's position untouched; a call gets past its
\* assertion only when the flag is true, and then without the fatal state;
\* qemu_event_init sets the flag whatever it was; destroy() clears the flag.
C11_Lifecycle ==
    [][/\ (calls' # calls /\ ~initialized =>
             \/ /\ fatal'
                /\ UNCHANGED <<value, initialized, lock, wakes, ncas, pc>>
             \/ /\ ~fatal' /\ initialized' /\ pc' = pc /\ wakes' = wakes
                /\ value' \in {EV_SET, EV_FREE})
       /\ (calls' # calls /\ initialized =>
             /\ ~fatal'
             /\ pc' = pc => initialized' /\ value' \in {EV_SET, EV_FREE})
       /\ \A t \in Threads :
             pc[t] = "idle" /\ pc'[t] # "idle" => initialized /\ ~fatal'
       /\ \A d \in Threads :
             Leaves(d, "destroy_clear") => ~initialized' /\ value' = value]_vars

\* An event was initialized, then destroyed, and a later call (a second
\* destroy() included) ended in the fatal assertion.
C11_Witness ==
    fatal /\ ~initialized /\ calls >= 3 /\ wakes = 0

SetResetPcs ==
    {"set_read", "set_xchg", "set_wake", "set_lock", "set_store", "set_bcast",
     "set_unlock", "reset_or"}

\* The largest number of its own steps a set() or reset() call still has to
\* take from position p.
StepsLeft(p) ==
    CASE p = "set_lock" -> 4
      [] p \in {"set_read", "set_store"} -> 3
      [] p \in {"set_xchg", "set_bcast"} -> 2
      [] p \in {"set_wake", "set_unlock", "reset_or"} -> 1
      [] OTHER -> 0

\* Every step of a set() or reset() call brings the call nearer to its return,
\* and no other thread moves it.
SetResetAdvance ==
    [][\A t \in Threads :
          pc[t] \in SetResetPcs /\ pc'[t] # pc[t]
            => StepsLeft(pc'[t]) < StepsLeft(pc[t])]_vars

\* C12 as stated: in both backends a thread inside set() or reset() can always
\* take its next step, whatever the other threads do or fail to do, and
\* returns after a bounded number of its own steps.
C12_SetResetNeverBlock ==
    /\ [](\A t \in Threads : pc[t] \in SetResetPcs => ENABLED Step(t))
    /\ SetResetAdvance

\* C12 (amended): reset() in both backends and set() in the fast backend can
\* always take their next step and return after a bounded number of their own
\* steps; set() in the fallback backend can too except at its
\* pthread_mutex_lock, where it proceeds exactly when the mutex is free and
\* otherwise waits for the holder, a set() or a wait() call between its lock
\* and its unlock or condition wait.
C12_OnlyFallbackSetWaitsForMutex ==
    /\ [](\A t \in Threads :
             pc[t] \in SetResetPcs /\ (have_futex \/ pc[t] # "set_lock")
               => ENABLED Step(t))
    /\ [](\A t \in Threads :
             pc[t] = "set_lock" =>
               /\ ~have_futex
               /\ ENABLED Step(t) <=> lock = 0
               /\ lock # 0 => pc[lock] \in {"set_store", "set_bcast",
                                 "set_unlock", "wait_check", "wait_unlock"})
    /\ SetResetAdvance

\* A wait() call is stalled holding the mutex while a set() is at its
\* pthread_mutex_lock and a reset() is at its OR.
C12_Witness ==
    \E s, r, w \in Threads :
        /\ pc[s] = "set_lock" /\ pc[r] = "reset_or"
        /\ lock = w /\ pc[w] \in {"wait_check", "wait_unlock"}

\* The set() calls that have exchanged BUSY out and not yet issued their wake.
WakesPending == Cardinality({s \in Threads : pc[s] = "set_wake"})

\* C13: in the fast backend a set() goes on to wake-all exactly when its
\* exchange replaced BUSY, the wake count grows only in such a wake-all step,
\* and the wake-alls issued or pending never outnumber the successful
\* FREE->BUSY compare-and-swaps: none as long as no wait() has done one.
C13_WakeOnlyForBusy ==
    /\ [](have_futex => wakes + WakesPending <= ncas)
    /\ [](have_futex /\ ncas = 0 => wakes = 0 /\ WakesPending = 0)
    /\ [][have_futex =>
            /\ \A s \in Threads : Leaves(s, "set_xchg") =>
                  /\ pc'[s] = "set_wake" <=> value = EV_BUSY
                  /\ wakes' = wakes
            /\ wakes' # wakes =>
                  /\ wakes' = wakes + 1
                  /\ \E s \in Threads :
                        Leaves(s, "set_wake") /\ old[s] = EV_BUSY]_vars

\* Every compare-and-swap so far has been answered by a wake-all, and a later
\* set() finds the word not BUSY and is about to exchange without a wake.
C13_Witness ==
    /\ have_futex /\ wakes >= 1 /\ wakes = ncas
    /\ \E s \in Threads : pc[s] = "set_xchg" /\ value # EV_BUSY

C15_WaiterNeverLost ==
    /\ [](have_futex /\ (\E t \in Threads : pc[t] = "futex_sleep")
            => value = EV_BUSY
               \/ \E s \in Threads : pc[s] = "set_wake" /\ old[s] = EV_BUSY)
    /\ [][\A r \in Threads :
            Leaves(r, "reset_or") /\ value = EV_BUSY
              => value' = EV_BUSY /\ pc' = [pc EXCEPT ![r] = "idle"]]_vars

\* A waiter sleeps while the word is FREE: a set() exchanged BUSY out, a
\* reset() ran before that set() issued its wake-all.
C15_Witness ==
    /\ have_futex /\ value = EV_FREE
    /\ \E t, s \in Threads : pc[t] = "futex_sleep" /\ pc[s] = "set_wake"

\* C16: in both backends the store of set() leaves the word SET, a set() that
\* returns early has read SET, and the word then stays SET until a reset()
\* step: only reset() moves it out of SET, the compare-and-swap of wait()
\* changes nothing unless the word is FREE, and a set() call that has stored
\* SET with no reset() since sees the word SET until and when it returns.
C16_SetStaysUntilReset ==
    /\ [](\A s \in Threads : kept[s] => value = EV_SET)
    /\ [][/\ \A s \in Threads :
               /\ Leaves(s, "set_xchg") \/ Leaves(s, "set_store")
                    => value' = EV_SET
               /\ Leaves(s, "set_read") /\ pc'[s] = "idle"
                    => value = EV_SET /\ value' = EV_SET
               /\ kept[s] /\ pc'[s] = "idle" => value' = EV_SET
          /\ value = EV_SET /\ value' # EV_SET
               => value' = EV_FREE /\ \E r \in Threads : Leaves(r, "reset_or")
          /\ \A w \in Threads :
               Leaves(w, "wait_cas") /\ value # EV_FREE => value' = value]_vars

\* A set() has stored SET and is not back yet, no reset() has run since, and
\* a concurrent wait() that had read FREE is about to compare-and-swap.
C16_Witness ==
    \E s, w \in Threads :
        kept[s] /\ pc[s] = "set_wake" /\ pc[w] = "wait_cas" /\ value = EV_SET

\* C17: in the fast backend a set() reaches its wake-all only from its
\* exchange, which has stored SET over BUSY; a wait() enters the sleep only
\* from its wait-on-address call while the word is BUSY, after a FREE->BUSY
\* compare-and-swap, and is sent back to its load when the word is not BUSY;
\* a wake-all releases every thread asleep at that moment.  So while the word
\* is SET (a set() has executed and no reset() after it) and no wake-all is
\* pending, nobody is asleep: with one set(), one wait() and no reset() the
\* waiter is not left asleep once the set() has returned.
C17_StoreBeforeWake ==
    /\ [](have_futex /\ value = EV_SET /\ WakesPending = 0
            => \A t \in Threads : pc[t] # "futex_sleep")
    /\ [][have_futex =>
            /\ \A s \in Threads :
                  /\ pc[s] # "set_wake" /\ pc'[s] = "set_wake"
                       => pc[s] = "set_xchg" /\ value = EV_BUSY
                          /\ value' = EV_SET
                  /\ Leaves(s, "set_wake")
                       => \A t \in Threads :
                             pc[t] = "futex_sleep" => pc'[t] = "wait_load"
            /\ \A t \in Threads :
                  /\ pc[t] # "futex_sleep" /\ pc'[t] = "futex_sleep"
                       => pc[t] = "wait_futex" /\ value = EV_BUSY /\ ncas >= 1
                  /\ Leaves(t, "wait_futex") /\ value # EV_BUSY
                       => pc'[t] = "wait_load"
                  /\ InWait(t) /\ pc'[t] = "idle" /\ ~blocked[t]
                       => value = EV_SET]_vars

\* One set() and one wait() have been called and nothing else: the waiter is
\* asleep, the set() has stored SET and is about to issue its wake-all.
C17_Witness ==
    /\ have_futex /\ calls = 2 /\ value = EV_SET
    /\ \E t, s \in Threads : pc[t] = "futex_sleep" /\ pc[s] = "set_wake"

====
